---- MODULE Spec2Model ----
(***************************************************************************)
(* Grid editing session of the image splitter: the live grid (rows, cols,  *)
(* rowPositions, colPositions), the undo/redo history, line selection,     *)
(* line drag and nudge.  The repository holds two builds of the App        *)
(* component, src/App.tsx and src/unnamed/part_000; the variable build     *)
(* says which one runs, and every handler is translated per build.         *)
(*                                                                         *)
(* Numbers.  A line position is a percentage; the model counts it in       *)
(* thousandths of a percent (Unit = 1000), so that Number(x.toFixed(2))    *)
(* is a real rounding (Fix2) and not the identity.  NaN and Undef stand    *)
(* for the JavaScript values NaN and undefined (an array hole reads as     *)
(* undefined).                                                             *)
(*                                                                         *)
(* React.  Every handler runs to completion and the component re-renders   *)
(* (effects included) before the next event is handled; what a handler     *)
(* reads from its closure is therefore the live state, except for the two  *)
(* closures that outlive a render: the drag closure created by             *)
(* onLineDragStart (variable drag) and the keydown listener, re-installed  *)
(* only when one of its dependencies changes (variable keydown).  While a  *)
(* drag holds the pointer only pointer moves, the release and the keyboard *)
(* (Ctrl+Z, Ctrl+Shift+Z, arrow keys) are handled.  The                    *)
(* setTimeout that clears isUndoRedo is a separate step; pendingTimeouts    *)
(* counts the timeouts not yet run.                                        *)
(*                                                                         *)
(* Observation.  lastOp records the handler of the last input event and    *)
(* the state it pushed, if it pushed one; budget is the number of input    *)
(* events the run may still handle.                                        *)
(***************************************************************************)
EXTENDS Integers, Sequences, FiniteSets, TLC

VARIABLES build, imageSrc, rows, cols, rowPositions, colPositions,
          history, historyIndex, isUndoRedo, pendingTimeouts, selectedLine,
          drag, keydown, lastOp, budget,
          paddingX, paddingY, outputSize, format, isProcessing, results,
          editingResult, split, alerts, composed, urls, faults,
          modal, modalKeys, saving

\* the grid editing state
gridVars == <<build, imageSrc, rows, cols, rowPositions, colPositions,
              history, historyIndex, isUndoRedo, pendingTimeouts,
              selectedLine, drag, keydown>>

\* the export settings, the batch split and its results
\* the fine-tune editor: its component state, the closure of its keydown
\* listener and the saves whose generateImageBlob has not settled
tuneVars == <<modal, modalKeys, saving>>

outVars == <<paddingX, paddingY, outputSize, format, isProcessing, results,
             editingResult, split, alerts, composed, urls, faults,
             modal, modalKeys, saving>>

vars == <<build, imageSrc, rows, cols, rowPositions, colPositions,
          history, historyIndex, isUndoRedo, pendingTimeouts, selectedLine,
          drag, keydown, lastOp, budget,
          paddingX, paddingY, outputSize, format, isProcessing, results,
          editingResult, split, alerts, composed, urls, faults,
          modal, modalKeys, saving>>

(***************************************************************************)
(* Bounds of the model.                                                    *)
(***************************************************************************)
MaxEvents == 5
MaxLineEvents == 7
MaxCount == 2
MaxLineIndex == 4

Builds == {"App", "part_000"}
CountInputs == 1..MaxCount
PointerPcts == {-1000, 50004, 75000}
ArrowKeys == {"ArrowUp", "ArrowDown", "ArrowLeft", "ArrowRight"}
NudgeDirs == {"up", "down", "left", "right"}

(***************************************************************************)
(* JavaScript numbers and arrays.                                          *)
(***************************************************************************)
Unit == 1000
NaN == -9000000
Undef == -9000001

IsNum(x) == x # NaN /\ x # Undef

JsAdd(a, b) == IF IsNum(a) /\ IsNum(b) THEN a + b ELSE NaN
JsSub(a, b) == IF IsNum(a) /\ IsNum(b) THEN a - b ELSE NaN
JsMax(a, b) == IF IsNum(a) /\ IsNum(b) THEN (IF a >= b THEN a ELSE b) ELSE NaN
JsMin(a, b) == IF IsNum(a) /\ IsNum(b) THEN (IF a <= b THEN a ELSE b) ELSE NaN
\* a !== b
StrictNe(a, b) == a = NaN \/ b = NaN \/ a # b

\* Number(x.toFixed(2)): round to two decimals, ties away from zero
Fix2(x) ==
    IF ~IsNum(x) THEN NaN
    ELSE IF x >= 0 THEN ((x + 5) \div 10) * 10
    ELSE -(((5 - x) \div 10) * 10)

\* arr.length, arr[i] and arr[i] = v for a 0-based index i
ArrayGet(arr, i) == IF i >= 0 /\ i < Len(arr) THEN arr[i + 1] ELSE Undef
ArraySet(arr, i, v) ==
    IF i < Len(arr) THEN [arr EXCEPT ![i + 1] = v]
    ELSE [k \in 1..(i + 1) |->
            IF k <= Len(arr) THEN arr[k] ELSE IF k = i + 1 THEN v ELSE Undef]

RECURSIVE InsertAsc(_, _)
InsertAsc(s, x) ==
    IF s = <<>> THEN <<x>>
    ELSE IF x < Head(s) THEN <<x>> \o s
    ELSE <<Head(s)>> \o InsertAsc(Tail(s), x)

RECURSIVE SortAsc(_)
SortAsc(s) == IF s = <<>> THEN <<>> ELSE InsertAsc(SortAsc(Tail(s)), Head(s))

Defined(arr) == SelectSeq(arr, LAMBDA x: x # Undef)
Pad(n) == [k \in 1..n |-> Undef]
Perms(s) ==
    { [k \in 1..Len(s) |-> s[p[k]]] :
        p \in { q \in [1..Len(s) -> 1..Len(s)] :
                  \A a, b \in 1..Len(s) : a # b => q[a] # q[b] } }

\* arr.sort((a,b) => a-b): undefined elements go last; numbers ascend.  With
\* a NaN among the elements the comparator is inconsistent and the order of
\* the defined elements is implementation-defined: any permutation.
SortOutcomes(arr) ==
    LET d == Defined(arr)
        u == Pad(Len(arr) - Len(d))
    IN  IF \E k \in 1..Len(d) : d[k] = NaN
        THEN { p \o u : p \in Perms(d) }
        ELSE { SortAsc(d) \o u }

\* JSON.stringify of a number array: NaN and undefined both print as null
JsonArray(arr) == [k \in 1..Len(arr) |-> IF IsNum(arr[k]) THEN arr[k] ELSE Undef]
JsonState(s) ==
    [rows |-> s.rows, cols |-> s.cols,
     rowPositions |-> JsonArray(s.rowPositions),
     colPositions |-> JsonArray(s.colPositions)]

(***************************************************************************)
(* Geometry.                                                               *)
(***************************************************************************)
\* positions cut to two decimals instead of rounded
generatePositionsTruncated(count) ==
    IF count < 1 THEN <<0, 100 * Unit>>
    ELSE [k \in 1..(count + 1) |-> (((k - 1) * 100 * 100) \div count) * 10]

\* Number((i * (100 / count)).toFixed(2)) for i = 0..count
generatePositions(count) ==
    IF count < 1 THEN <<0, 100 * Unit>>
    ELSE [k \in 1..(count + 1) |->
            ((2 * (k - 1) * 100 * 100 + count) \div (2 * count)) * 10]

HistoryState(r, c, rp, cp) ==
    [rows |-> r, cols |-> c, rowPositions |-> rp, colPositions |-> cp]

(***************************************************************************)
(* History.                                                                *)
(***************************************************************************)
\* addToHistory as called with the flag isUndoRedo.current = flag, the state
\* history = prev, the historyIndex of the caller's closure = idx and the live
\* historyIndex = live.  set tells whether setHistory was called.
addToHistory(flag, prev, idx, live, newState) ==
    IF flag THEN [history |-> prev, historyIndex |-> live, set |-> FALSE]
    ELSE LET n == IF idx + 1 < Len(prev) THEN idx + 1 ELSE Len(prev)
             current == SubSeq(prev, 1, n)
         IN  IF n > 0 /\ JsonState(current[n]) = JsonState(newState)
             THEN [history |-> current, historyIndex |-> live, set |-> TRUE]
             ELSE [history |-> Append(current, newState),
                   historyIndex |-> n, set |-> TRUE]

\* the keydown effect runs again, and its listener closes over the render's
\* line arrays, when one of [selectedLine, history, historyIndex, rows, cols]
\* changed
Keydown(depsChanged, rp, cp) ==
    IF depsChanged THEN [rowPositions |-> rp, colPositions |-> cp] ELSE keydown

NoLine == [type |-> "none", index |-> 0]
NoDrag ==
    [active |-> FALSE, type |-> "none", index |-> 0, rows |-> 0, cols |-> 0,
     historyIndex |-> 0, rowPositions |-> <<>>, colPositions |-> <<>>,
     moved |-> FALSE, pct |-> 0]

NoState == [rows |-> 0, cols |-> 0, rowPositions |-> <<>>, colPositions |-> <<>>]

\* one input event is handled by the handler name; pushed tells whether it
\* called addToHistory with the flag clear, and with which state
Op(name, pushed, state) ==
    [name |-> name, pushed |-> pushed,
     state |-> IF pushed THEN state ELSE NoState]

\* the handlers of the grid leave the export settings, the split and its
\* results alone
Event(name) ==
    /\ budget > 0
    /\ budget' = budget - 1
    /\ lastOp' = Op(name, FALSE, NoState)
    /\ UNCHANGED outVars

PushEvent(name, h, state) ==
    /\ budget > 0
    /\ budget' = budget - 1
    /\ lastOp' = Op(name, h.set, state)
    /\ UNCHANGED outVars

\* the export settings and the result state of a fresh App
AutoSize == [auto |-> TRUE, px |-> 0]
NoResults == [open |-> FALSE, list |-> <<>>]
NoSplit ==
    [active |-> FALSE, r |-> 0, c |-> 0, idCounter |-> 0, newResults |-> <<>>,
     sortedRows |-> <<>>, sortedCols |-> <<>>, paddingX |-> 0, paddingY |-> 0,
     outputSize |-> AutoSize, format |-> "png"]
NoCompose == [calls |-> 0]
NoResult ==
    [id |-> -1, dataUrl |-> 0,
     blob |-> [type |-> "null", width |-> 0, height |-> 0, painted |-> FALSE],
     extension |-> "png", originalRect |-> [x |-> 0, y |-> 0, w |-> 0, h |-> 0],
     outputSize |-> AutoSize, hasExtra |-> FALSE,
     margins |-> [top |-> 0, bottom |-> 0, left |-> 0, right |-> 0],
     offset |-> [x |-> 0, y |-> 0], isSquare |-> FALSE, bgColor |-> "undefined"]
NoEditing == [open |-> FALSE, result |-> NoResult]
NoModal ==
    [rect |-> NoResult.originalRect, margins |-> NoResult.margins,
     offset |-> NoResult.offset, isSquare |-> FALSE, bgColor |-> "white",
     activeTab |-> "crop", isSaving |-> FALSE,
     userPrefBgColor |-> "white", userPrefIsSquare |-> FALSE]
NoKeys ==
    [result |-> NoResult, rect |-> NoResult.originalRect,
     margins |-> NoResult.margins, offset |-> NoResult.offset,
     isSquare |-> FALSE, bgColor |-> "white", hasNext |-> FALSE,
     hasPrev |-> FALSE, editingResult |-> NoEditing, results |-> NoResults]

InitOut ==
    /\ paddingX = 0
    /\ paddingY = 0
    /\ outputSize = AutoSize
    /\ format = "png"
    /\ isProcessing = FALSE
    /\ results = NoResults
    /\ editingResult = NoEditing
    /\ split = NoSplit
    /\ alerts = <<>>
    /\ composed = NoCompose
    /\ urls = 0
    /\ faults = 0
    /\ modal = NoModal
    /\ modalKeys = NoKeys
    /\ saving = <<>>

InitialRows == 4
InitialCols == 4
UploadCount == 4

Init ==
    /\ build \in Builds
    /\ imageSrc = FALSE
    /\ rows = InitialRows
    /\ cols = InitialCols
    /\ rowPositions = <<0, 25000, 50000, 75000, 100000>>
    /\ colPositions = <<0, 25000, 50000, 75000, 100000>>
    /\ history = <<>>
    /\ historyIndex = -1
    /\ isUndoRedo = FALSE
    /\ pendingTimeouts = 0
    /\ selectedLine = NoLine
    /\ drag = NoDrag
    /\ keydown = [rowPositions |-> rowPositions, colPositions |-> colPositions]
    /\ lastOp = Op("init", FALSE, NoState)
    /\ budget = MaxEvents
    /\ InitOut

\* img.onload of handleUpload; rows and cols are not set.  The effect on
\* [imageSrc] that seeds an empty history is overwritten by setHistory here.
handleUpload ==
    /\ ~drag.active
    /\ Event("handleUpload")
    /\ imageSrc' = TRUE
    /\ rowPositions' = generatePositions(UploadCount)
    /\ colPositions' = generatePositions(UploadCount)
    /\ history' = <<HistoryState(UploadCount, UploadCount,
                                 rowPositions', colPositions')>>
    /\ historyIndex' = 0
    /\ keydown' = Keydown(TRUE, rowPositions', colPositions')
    /\ UNCHANGED <<build, rows, cols, isUndoRedo, pendingTimeouts,
                   selectedLine, drag>>

\* the grid controls of the sidebar take no pointer input until an image is
\* loaded (pointer-events-none while hasImage is false)
handleRowChange(n) ==
    LET rp == generatePositions(n)
        newState == HistoryState(n, cols, rp, colPositions)
        h == addToHistory(isUndoRedo, history, historyIndex, historyIndex,
                          newState)
    IN  /\ imageSrc
        /\ ~drag.active
        /\ PushEvent("handleRowChange", h, newState)
        /\ rows' = n
        /\ rowPositions' = rp
        /\ history' = h.history
        /\ historyIndex' = h.historyIndex
        /\ keydown' = Keydown(h.set \/ n # rows \/ h.historyIndex # historyIndex,
                              rp, colPositions)
        /\ UNCHANGED <<build, imageSrc, cols, colPositions, isUndoRedo,
                       pendingTimeouts, selectedLine, drag>>

handleColChange(n) ==
    LET cp == generatePositions(n)
        newState == HistoryState(rows, cols, rowPositions, cp)
        h == addToHistory(isUndoRedo, history, historyIndex, historyIndex,
                          newState)
    IN  /\ imageSrc
        /\ ~drag.active
        /\ PushEvent("handleColChange", h, newState)
        /\ cols' = n
        /\ colPositions' = cp
        /\ history' = h.history
        /\ historyIndex' = h.historyIndex
        /\ keydown' = Keydown(h.set \/ n # cols \/ h.historyIndex # historyIndex,
                              rowPositions, cp)
        /\ UNCHANGED <<build, imageSrc, rows, rowPositions, isUndoRedo,
                       pendingTimeouts, selectedLine, drag>>

onResetGrid ==
    LET p == generatePositions(rows)
        newState == HistoryState(rows, cols, p, p)
        h == addToHistory(isUndoRedo, history, historyIndex, historyIndex,
                          newState)
    IN  /\ imageSrc
        /\ ~drag.active
        /\ PushEvent("onResetGrid", h, newState)
        /\ rowPositions' = p
        /\ colPositions' = p
        /\ history' = h.history
        /\ historyIndex' = h.historyIndex
        /\ keydown' = Keydown(h.set, p, p)
        /\ UNCHANGED <<build, imageSrc, rows, cols, isUndoRedo,
                       pendingTimeouts, selectedLine, drag>>

\* the snapshot is applied and a timeout is set to clear the flag; reading
\* .rows of a missing entry throws after the flag was set
\* a snapshot applied without setHistoryIndex
ApplySnapshotKeepsPointer(target) ==
    IF target >= 0 /\ target < Len(history)
    THEN LET s == history[target + 1]
         IN  /\ isUndoRedo' = TRUE
             /\ rows' = s.rows
             /\ cols' = s.cols
             /\ rowPositions' = s.rowPositions
             /\ colPositions' = s.colPositions
             /\ historyIndex' = historyIndex
             /\ pendingTimeouts' = pendingTimeouts + 1
             /\ keydown' = Keydown(TRUE, s.rowPositions, s.colPositions)
    ELSE /\ isUndoRedo' = TRUE
         /\ UNCHANGED <<rows, cols, rowPositions, colPositions, historyIndex,
                        pendingTimeouts, keydown>>

ApplySnapshot(target) ==
    IF target >= 0 /\ target < Len(history)
    THEN LET s == history[target + 1]
         IN  /\ isUndoRedo' = TRUE
             /\ rows' = s.rows
             /\ cols' = s.cols
             /\ rowPositions' = s.rowPositions
             /\ colPositions' = s.colPositions
             /\ historyIndex' = target
             /\ pendingTimeouts' = pendingTimeouts + 1
             /\ keydown' = Keydown(TRUE, s.rowPositions, s.colPositions)
    ELSE /\ isUndoRedo' = TRUE
         /\ UNCHANGED <<rows, cols, rowPositions, colPositions, historyIndex,
                        pendingTimeouts, keydown>>

handleUndo ==
    /\ Event("handleUndo")
    /\ IF historyIndex > 0
       THEN ApplySnapshot(historyIndex - 1)
       ELSE UNCHANGED <<isUndoRedo, rows, cols, rowPositions, colPositions,
                        historyIndex, pendingTimeouts, keydown>>
    /\ UNCHANGED <<build, imageSrc, history, selectedLine, drag>>

handleRedo ==
    /\ Event("handleRedo")
    /\ IF historyIndex < Len(history) - 1
       THEN ApplySnapshot(historyIndex + 1)
       ELSE UNCHANGED <<isUndoRedo, rows, cols, rowPositions, colPositions,
                        historyIndex, pendingTimeouts, keydown>>
    /\ UNCHANGED <<build, imageSrc, history, selectedLine, drag>>

\* setTimeout(() => isUndoRedo.current = false, 0)
isUndoRedoTimeout ==
    /\ pendingTimeouts > 0
    /\ pendingTimeouts' = pendingTimeouts - 1
    /\ isUndoRedo' = FALSE
    /\ UNCHANGED <<build, imageSrc, rows, cols, rowPositions, colPositions,
                   history, historyIndex, selectedLine, drag, keydown, lastOp,
                   budget>>
    /\ UNCHANGED outVars

(***************************************************************************)
(* Line selection, drag and nudge.                                         *)
(***************************************************************************)
Lines(type) == IF type = "row" THEN rowPositions ELSE colPositions

\* handleBackgroundClick
handleBackgroundClick ==
    /\ ~drag.active
    /\ selectedLine # NoLine
    /\ Event("handleBackgroundClick")
    /\ selectedLine' = NoLine
    /\ keydown' = Keydown(TRUE, rowPositions, colPositions)
    /\ UNCHANGED <<build, imageSrc, rows, cols, rowPositions, colPositions,
                   history, historyIndex, isUndoRedo, pendingTimeouts, drag>>

\* pointer (mouse) down on the rendered line index of an axis: the drag
\* closure is created from the current render and the line is selected;
\* moved observes whether a move of this drag changed a line array
onLineDragStart(type, index) ==
    /\ imageSrc
    /\ ~drag.active
    /\ index < Len(Lines(type))
    /\ Lines(type)[index + 1] # Undef
    /\ Event("onLineDragStart")
    /\ drag' = [active |-> TRUE, type |-> type, index |-> index,
                rows |-> rows, cols |-> cols, historyIndex |-> historyIndex,
                rowPositions |-> rowPositions, colPositions |-> colPositions,
                moved |-> FALSE, pct |-> 0]
    /\ selectedLine' = [type |-> type, index |-> index]
    /\ keydown' = Keydown(TRUE, rowPositions, colPositions)
    /\ UNCHANGED <<build, imageSrc, rows, cols, rowPositions, colPositions,
                   history, historyIndex, isUndoRedo, pendingTimeouts>>

\* Math.max(0, Math.min(100, pct))
Clamp(pct) == JsMax(0, JsMin(100 * Unit, pct))

\* updateLinePosition without its sort
updateLinePositionNoSort(prev, index, newPct) ==
    {ArraySet(prev, index, Fix2(Clamp(newPct)))}

\* the functional update of updateLinePosition on the array prev: the set of
\* arrays the sort can return
updateLinePosition(prev, index, newPct) ==
    SortOutcomes(ArraySet(prev, index, Fix2(Clamp(newPct))))

\* the functional update of handleMove in App.tsx (no rounding)
handleMoveApp(prev, index, pct) ==
    SortOutcomes(ArraySet(prev, index, Clamp(pct)))

MoveOutcomes(prev, index, pct) ==
    IF build = "App" THEN handleMoveApp(prev, index, pct)
    ELSE updateLinePosition(prev, index, pct)

\* pointer move during a drag; pct is ((clientPos - startPos) / dimension) * 100
handleMove(pct) ==
    /\ drag.active
    /\ Event("handleMove")
    /\ IF drag.type = "row"
       THEN /\ rowPositions' \in MoveOutcomes(rowPositions, drag.index, pct)
            /\ UNCHANGED colPositions
       ELSE /\ colPositions' \in MoveOutcomes(colPositions, drag.index, pct)
            /\ UNCHANGED rowPositions
    /\ drag' = [drag EXCEPT !.moved =
                   @ \/ rowPositions' # rowPositions
                     \/ colPositions' # colPositions,
                              !.pct = pct]
    /\ UNCHANGED <<build, imageSrc, rows, cols, history, historyIndex,
                   isUndoRedo, pendingTimeouts, selectedLine, keydown>>

\* the state handleUp hands to addToHistory: App.tsx reads the line arrays of
\* the drag closure, part_000 reads rowPositionsRef / colPositionsRef
handleUpStateApp ==
    HistoryState(drag.rows, drag.cols, drag.rowPositions, drag.colPositions)

handleUpStateRef ==
    HistoryState(drag.rows, drag.cols, rowPositions, colPositions)

handleUpState == IF build = "App" THEN handleUpStateApp ELSE handleUpStateRef

handleUp ==
    LET h == addToHistory(isUndoRedo, history, drag.historyIndex, historyIndex,
                          handleUpState)
    IN  /\ drag.active
        /\ PushEvent("handleUp", h, handleUpState)
        /\ drag' = NoDrag
        /\ history' = h.history
        /\ historyIndex' = h.historyIndex
        /\ keydown' = Keydown(h.set, rowPositions, colPositions)
        /\ UNCHANGED <<build, imageSrc, rows, cols, rowPositions, colPositions,
                       isUndoRedo, pendingTimeouts, selectedLine>>

NudgeLimit == 100
LowSentinel == -10 * Unit
HighSentinel == 110 * Unit

\* the arrow-key branch of handleKeyDown in App.tsx on one axis' array:
\* the new array and whether it changed
KeyNudgeApp(arr, idx, key, shift) ==
    LET step == IF shift THEN 2 * Unit ELSE 200
        cur == ArrayGet(arr, idx)
    IN  IF key \in {"ArrowUp", "ArrowLeft"}
        THEN LET limit == IF idx > 0 THEN ArrayGet(arr, idx - 1) ELSE LowSentinel
                 newVal == JsMax(JsAdd(limit, NudgeLimit), JsSub(cur, step))
             IN  IF StrictNe(newVal, cur)
                 THEN [arr |-> ArraySet(arr, idx, Fix2(newVal)), changed |-> TRUE]
                 ELSE [arr |-> arr, changed |-> FALSE]
        ELSE LET limit == IF idx < Len(arr) - 1 THEN ArrayGet(arr, idx + 1)
                          ELSE HighSentinel
                 newVal == JsMin(JsSub(limit, NudgeLimit), JsAdd(cur, step))
             IN  IF StrictNe(newVal, cur)
                 THEN [arr |-> ArraySet(arr, idx, Fix2(newVal)), changed |-> TRUE]
                 ELSE [arr |-> arr, changed |-> FALSE]

handleKeyDownApp(key, shift) ==
    LET isRow == selectedLine.type = "row"
        r == KeyNudgeApp(Lines(selectedLine.type), selectedLine.index, key, shift)
        newRP == IF isRow THEN r.arr ELSE rowPositions
        newCP == IF isRow THEN colPositions ELSE r.arr
        newState == HistoryState(rows, cols, newRP, newCP)
        h == addToHistory(isUndoRedo, history, historyIndex, historyIndex,
                          newState)
    IN  IF r.changed
        THEN /\ PushEvent("handleKeyDown", h, newState)
             /\ rowPositions' = newRP
             /\ colPositions' = newCP
             /\ history' = h.history
             /\ historyIndex' = h.historyIndex
             /\ keydown' = Keydown(h.set, newRP, newCP)
        ELSE /\ Event("handleKeyDown")
             /\ UNCHANGED <<rowPositions, colPositions, history, historyIndex,
                            keydown>>

\* handleNudge: the value handed to updateLinePosition, read from the line
\* arrays rp, cp of the closure handleNudge was created in
handleNudge(dir, fast, line, rp, cp) ==
    LET step == IF fast THEN 2 * Unit ELSE 200
        currentVal == ArrayGet(IF line.type = "row" THEN rp ELSE cp, line.index)
    IN  IF line.type = "row"
        THEN IF dir = "up" THEN JsSub(currentVal, step)
             ELSE IF dir = "down" THEN JsAdd(currentVal, step)
             ELSE currentVal
        ELSE IF dir = "left" THEN JsSub(currentVal, step)
             ELSE IF dir = "right" THEN JsAdd(currentVal, step)
             ELSE currentVal

Nudge(name, dir, fast, rp, cp) ==
    LET newVal == handleNudge(dir, fast, selectedLine, rp, cp)
    IN  /\ Event(name)
        /\ IF selectedLine.type = "row"
           THEN /\ rowPositions' \in
                     updateLinePosition(rowPositions, selectedLine.index, newVal)
                /\ UNCHANGED colPositions
           ELSE /\ colPositions' \in
                     updateLinePosition(colPositions, selectedLine.index, newVal)
                /\ UNCHANGED rowPositions
        /\ UNCHANGED <<history, historyIndex, keydown>>

dirMap(key) ==
    CASE key = "ArrowUp" -> "up" [] key = "ArrowDown" -> "down"
      [] key = "ArrowLeft" -> "left" [] key = "ArrowRight" -> "right"

\* an arrow key while a line is selected
handleKeyDown(key, shift) ==
    /\ selectedLine # NoLine
    /\ IF build = "App" THEN handleKeyDownApp(key, shift)
       ELSE Nudge("handleKeyDown", dirMap(key), shift,
                  keydown.rowPositions, keydown.colPositions)
    /\ UNCHANGED <<build, imageSrc, rows, cols, isUndoRedo, pendingTimeouts,
                   selectedLine, drag>>

\* a button of NudgeControl (part_000 only): onNudge(dir, false, selectedLine)
\* with the handleNudge of the current render
onNudge(dir) ==
    /\ build = "part_000"
    /\ ~drag.active
    /\ selectedLine # NoLine
    /\ Nudge("onNudge", dir, FALSE, rowPositions, colPositions)
    /\ UNCHANGED <<build, imageSrc, rows, cols, isUndoRedo, pendingTimeouts,
                   selectedLine, drag>>

Next ==
    \/ handleUpload
    \/ \E n \in CountInputs : handleRowChange(n)
    \/ \E n \in CountInputs : handleColChange(n)
    \/ onResetGrid
    \/ handleUndo
    \/ handleRedo
    \/ isUndoRedoTimeout
    \/ handleBackgroundClick
    \/ \E type \in {"row", "col"}, index \in 0..MaxLineIndex :
          onLineDragStart(type, index)
    \/ \E pct \in PointerPcts : handleMove(pct)
    \/ handleUp
    \/ \E key \in ArrowKeys, shift \in BOOLEAN : handleKeyDown(key, shift)
    \/ \E dir \in NudgeDirs : onNudge(dir)

Spec == Init /\ [][Next]_vars

(***************************************************************************)
(* The line edits alone (load, drag and arrow keys on row lines), with a   *)
(* longer run.                                                             *)
(***************************************************************************)
InitLines ==
    /\ build \in Builds
    /\ imageSrc = FALSE
    /\ rows = InitialRows
    /\ cols = InitialCols
    /\ rowPositions = <<0, 25000, 50000, 75000, 100000>>
    /\ colPositions = <<0, 25000, 50000, 75000, 100000>>
    /\ history = <<>>
    /\ historyIndex = -1
    /\ isUndoRedo = FALSE
    /\ pendingTimeouts = 0
    /\ selectedLine = NoLine
    /\ drag = NoDrag
    /\ keydown = [rowPositions |-> rowPositions, colPositions |-> colPositions]
    /\ lastOp = Op("init", FALSE, NoState)
    /\ budget = MaxLineEvents
    /\ InitOut

NextLines ==
    \/ handleUpload
    \/ \E index \in 0..MaxLineIndex : onLineDragStart("row", index)
    \/ \E pct \in PointerPcts : handleMove(pct)
    \/ handleUp
    \/ \E key \in ArrowKeys, shift \in BOOLEAN : handleKeyDown(key, shift)

SpecLines == InitLines /\ [][NextLines]_vars

(***************************************************************************)
(* The compositor, generateImageBlob.  Lengths in pixels are counted in    *)
(* hundredths of a pixel (PxUnit = 100); a canvas dimension is a whole     *)
(* number of pixels.  env says what the browser does during one call:      *)
(* whether getContext returns a context for the base canvas and for the    *)
(* resized canvas, and whether the GIF encoder loads and encodes.          *)
(***************************************************************************)
PxUnit == 100
NaturalSize == [w |-> 400, h |-> 200]

ZeroMargins == [top |-> 0, bottom |-> 0, left |-> 0, right |-> 0]
ZeroOffset == [x |-> 0, y |-> 0]
NullBlob == [type |-> "null", width |-> 0, height |-> 0, painted |-> FALSE]

NoFault == [baseCtx |-> TRUE, finalCtx |-> TRUE, gif |-> "ok"]
\* no failure, or one thing fails in the call
Envs == {NoFault,
         [NoFault EXCEPT !.baseCtx = FALSE],
         [NoFault EXCEPT !.finalCtx = FALSE],
         [NoFault EXCEPT !.gif = "importThrows"],
         [NoFault EXCEPT !.gif = "encodeThrows"]}

\* canvas.width = v: the fraction is dropped; a negative value resets the
\* attribute to its default
CanvasDim(v, default) == IF v < 0 THEN default ELSE v \div PxUnit

Resolved(blob, warnings, canvas, final) ==
    [status |-> "resolved", blob |-> blob, alerts |-> warnings,
     canvas |-> canvas, final |-> final]
Rejected(canvas, final) ==
    [status |-> "rejected", blob |-> NullBlob, alerts |-> <<>>,
     canvas |-> canvas, final |-> final]

\* a compositor that never makes the second canvas
NeverResized(size, canvasWidth, canvasHeight) == FALSE

\* typeof outputSize === 'number' && (canvasWidth !== outputSize ||
\* canvasHeight !== outputSize), on the numbers before they become canvas
\* dimensions
NeedsResize(size, canvasWidth, canvasHeight) ==
    /\ ~size.auto
    /\ \/ canvasWidth # size.px * PxUnit
       \/ canvasHeight # size.px * PxUnit

generateImageBlob(rect, margins, offset, isSquare, bgColor, size, fmt, env) ==
    LET contentW == rect.w + margins.left + margins.right
        contentH == rect.h + margins.top + margins.bottom
        side == IF contentW >= contentH THEN contentW ELSE contentH
        canvasWidth == IF isSquare THEN side ELSE contentW
        canvasHeight == IF isSquare THEN side ELSE contentH
        canvas == [width |-> CanvasDim(canvasWidth, 300),
                   height |-> CanvasDim(canvasHeight, 150),
                   painted |-> TRUE]
        resized == NeedsResize(size, canvasWidth, canvasHeight)
        finalCanvas == IF resized
                       THEN [width |-> size.px, height |-> size.px,
                             painted |-> env.finalCtx]
                       ELSE canvas
        \* finalCanvas.getContext('2d') in the encoding step
        hasCtx == resized => env.finalCtx
        noPixels == finalCanvas.width = 0 \/ finalCanvas.height = 0
        \* toBlob hands null to its callback for a canvas without pixels
        png == IF noPixels THEN NullBlob
               ELSE [type |-> "image/png", width |-> finalCanvas.width,
                     height |-> finalCanvas.height,
                     painted |-> finalCanvas.painted]
        gif == [type |-> "image/gif", width |-> finalCanvas.width,
                height |-> finalCanvas.height, painted |-> finalCanvas.painted]
    IN  IF ~env.baseCtx THEN Rejected(canvas, canvas)
        ELSE IF fmt = "png"
        THEN IF noPixels THEN Rejected(canvas, finalCanvas)
             ELSE Resolved(png, <<>>, canvas, finalCanvas)
        ELSE IF env.gif = "ok" /\ hasCtx /\ ~noPixels
        THEN Resolved(gif, <<>>, canvas, finalCanvas)
        ELSE Resolved(png, <<"GIF generation failed, falling back to PNG.">>,
                      canvas, finalCanvas)

(***************************************************************************)
(* Export settings and the batch split, handleSplit.  The loop of          *)
(* handleSplit awaits one generateImageBlob per cell; split holds the      *)
(* values its closure captured and the position of the loop, and           *)
(* splitCell is the continuation after one await.  faults is the number    *)
(* of compositor calls in which the browser may still fail.                *)
(***************************************************************************)
MaxSplitEvents == 3
MaxSplitCount == 2
MaxFaults == 1

SplitCounts == 1..MaxSplitCount
Paddings == {0, 50}
OutputSizes == {AutoSize, [auto |-> FALSE, px |-> 0], [auto |-> FALSE, px |-> 128]}
Formats == {"png", "gif"}

\* an event of the export side leaves the grid alone
OutEvent(name) ==
    /\ budget > 0
    /\ budget' = budget - 1
    /\ lastOp' = Op(name, FALSE, NoState)
    /\ UNCHANGED gridVars

setFormat(f) ==
    /\ imageSrc
    /\ OutEvent("setFormat")
    /\ format' = f
    /\ UNCHANGED <<paddingX, paddingY, outputSize, isProcessing, results,
                   editingResult, split, alerts, composed, urls, faults>>
    /\ UNCHANGED tuneVars

\* the size select and the custom size input: parseInt of what was typed
setOutputSize(size) ==
    /\ imageSrc
    /\ OutEvent("setOutputSize")
    /\ outputSize' = size
    /\ UNCHANGED <<paddingX, paddingY, format, isProcessing, results,
                   editingResult, split, alerts, composed, urls, faults>>
    /\ UNCHANGED tuneVars

\* handlePaddingChange with linkPadding set (its initial value)
handlePaddingChange(val) ==
    /\ imageSrc
    /\ OutEvent("handlePaddingChange")
    /\ paddingX' = val
    /\ paddingY' = val
    /\ UNCHANGED <<outputSize, format, isProcessing, results, editingResult,
                   split, alerts, composed, urls, faults>>
    /\ UNCHANGED tuneVars

\* a cell rectangle without the Math.max(1, ...) of its width and height
CellRectUnclamped(iw, ih, sortedRows, sortedCols, padX, padY, r, c) ==
    LET y1 == (sortedRows[r + 1] * ih) \div Unit
        y2 == (sortedRows[r + 2] * ih) \div Unit
        x1 == (sortedCols[c + 1] * iw) \div Unit
        x2 == (sortedCols[c + 2] * iw) \div Unit
    IN  [x |-> x1 + padX * PxUnit, y |-> y1 + padY * PxUnit,
         w |-> (x2 - x1) - (padX * PxUnit * 2),
         h |-> (y2 - y1) - (padY * PxUnit * 2)]

\* the Rect of the cell in row r, column c (0-based) as the loop body of
\* handleSplit computes it for an image of iw x ih pixels
CellRectOf(iw, ih, sortedRows, sortedCols, padX, padY, r, c) ==
    LET y1 == (sortedRows[r + 1] * ih) \div Unit
        y2 == (sortedRows[r + 2] * ih) \div Unit
        x1 == (sortedCols[c + 1] * iw) \div Unit
        x2 == (sortedCols[c + 2] * iw) \div Unit
        w == (x2 - x1) - (padX * PxUnit * 2)
        h == (y2 - y1) - (padY * PxUnit * 2)
    IN  [x |-> x1 + padX * PxUnit, y |-> y1 + padY * PxUnit,
         w |-> IF w > PxUnit THEN w ELSE PxUnit,
         h |-> IF h > PxUnit THEN h ELSE PxUnit]

\* a cell Rect that reads the padding of the latest render
CellRectLive(sortedRows, sortedCols, padX, padY, r, c) ==
    CellRectOf(NaturalSize.w, NaturalSize.h, sortedRows, sortedCols,
               paddingX, paddingY, r, c)

\* the Rect of a cell of the loaded image
CellRect(sortedRows, sortedCols, padX, padY, r, c) ==
    CellRectOf(NaturalSize.w, NaturalSize.h, sortedRows, sortedCols,
               padX, padY, r, c)

\* a result whose id counts from 1
SplitResultFromOne(id, url, blob, fmt, rect, size) ==
    [id |-> id + 1, dataUrl |-> url, blob |-> blob, extension |-> fmt,
     originalRect |-> rect, outputSize |-> size, hasExtra |-> FALSE,
     margins |-> ZeroMargins, offset |-> ZeroOffset, isSquare |-> FALSE,
     bgColor |-> "undefined"]

SplitResult(id, url, blob, fmt, rect, size) ==
    [id |-> id, dataUrl |-> url, blob |-> blob, extension |-> fmt,
     originalRect |-> rect, outputSize |-> size, hasExtra |-> FALSE,
     margins |-> ZeroMargins, offset |-> ZeroOffset, isSquare |-> FALSE,
     bgColor |-> "undefined"]

\* handleSplit up to its first await.  The two split buttons are disabled
\* while isProcessing; the handler itself tests imageElement.
handleSplit ==
    /\ ~isProcessing
    /\ OutEvent("handleSplit")
    /\ IF ~imageSrc
       THEN UNCHANGED outVars
       ELSE \E sr \in SortOutcomes(rowPositions), sc \in SortOutcomes(colPositions) :
              /\ IF Len(sr) > 1 /\ Len(sc) > 1
                 THEN /\ isProcessing' = TRUE
                      /\ split' = [active |-> TRUE, r |-> 0, c |-> 0,
                                   idCounter |-> 0, newResults |-> <<>>,
                                   sortedRows |-> sr, sortedCols |-> sc,
                                   paddingX |-> paddingX, paddingY |-> paddingY,
                                   outputSize |-> outputSize, format |-> format]
                      /\ UNCHANGED results
                 ELSE /\ results' = [open |-> TRUE, list |-> <<>>]
                      /\ UNCHANGED <<isProcessing, split>>
              /\ UNCHANGED <<paddingX, paddingY, outputSize, format,
                             editingResult, alerts, composed, urls, faults>>
              /\ UNCHANGED tuneVars

\* a catch block that reports nothing
SplitCatchSilent(shown) == shown

\* the catch block of handleSplit: alert("Error splitting image")
SplitCatch(shown) == Append(shown, "Error splitting image")

\* one turn of the loop: the awaited generateImageBlob settles under env;
\* a result is pushed, or the catch block runs; after the last cell the
\* results are published; finally clears isProcessing
splitCell(env) ==
    LET rect == CellRect(split.sortedRows, split.sortedCols, split.paddingX,
                         split.paddingY, split.r, split.c)
        out == generateImageBlob(rect, ZeroMargins, ZeroOffset, FALSE,
                                 "transparent", split.outputSize,
                                 split.format, env)
        \* URL.createObjectURL(null) throws a TypeError
        thrown == out.status = "rejected" \/ out.blob = NullBlob
        pushed == Append(split.newResults,
                         SplitResult(split.idCounter, urls + 1, out.blob,
                                     split.format, rect, split.outputSize))
        lastCol == split.c + 2 = Len(split.sortedCols)
        lastRow == split.r + 2 = Len(split.sortedRows)
    IN  /\ split.active
        /\ env = NoFault \/ faults > 0
        /\ faults' = IF env = NoFault THEN faults ELSE faults - 1
        /\ composed' = [calls |-> composed.calls + 1, rect |-> rect,
                        margins |-> ZeroMargins, offset |-> ZeroOffset,
                        isSquare |-> FALSE, bgColor |-> "transparent",
                        outputSize |-> split.outputSize,
                        format |-> split.format, out |-> out,
                        env |-> env, by |-> "handleSplit"]
        /\ IF thrown
           THEN /\ alerts' = SplitCatch(alerts \o out.alerts)
                /\ split' = NoSplit
                /\ isProcessing' = FALSE
                /\ UNCHANGED <<results, urls>>
           ELSE /\ alerts' = alerts \o out.alerts
                /\ urls' = urls + 1
                /\ IF lastCol /\ lastRow
                   THEN /\ results' = [open |-> TRUE, list |-> pushed]
                        /\ split' = NoSplit
                        /\ isProcessing' = FALSE
                   ELSE /\ split' = [split EXCEPT
                                       !.newResults = pushed,
                                       !.idCounter = @ + 1,
                                       !.c = IF lastCol THEN 0 ELSE @ + 1,
                                       !.r = IF lastCol THEN @ + 1 ELSE @]
                        /\ UNCHANGED <<results, isProcessing>>
        /\ UNCHANGED <<paddingX, paddingY, outputSize, format, editingResult>>
        /\ UNCHANGED tuneVars
        /\ UNCHANGED gridVars
        /\ UNCHANGED <<lastOp, budget>>

\* onClose of ResultsGallery: setResults(null)
closeGallery ==
    /\ results.open
    /\ ~editingResult.open
    /\ OutEvent("closeGallery")
    /\ results' = NoResults
    /\ UNCHANGED <<paddingX, paddingY, outputSize, format, isProcessing,
                   editingResult, split, alerts, composed, urls, faults>>
    /\ UNCHANGED tuneVars

\* a session that has loaded an image and set the row and column counts:
\* the state after handleUpload, handleRowChange(r), handleColChange(c)
LoadedGrid(r, c) ==
    LET g4 == generatePositions(UploadCount)
        atLoad == HistoryState(UploadCount, UploadCount, g4, g4)
        atRow == HistoryState(r, InitialCols, generatePositions(r), g4)
        atCol == HistoryState(r, InitialCols, generatePositions(r),
                              generatePositions(c))
    IN  /\ imageSrc = TRUE
        /\ rows = r
        /\ cols = c
        /\ rowPositions = generatePositions(r)
        /\ colPositions = generatePositions(c)
        /\ history = <<atLoad, atRow, atCol>>
        /\ historyIndex = 2
        /\ isUndoRedo = FALSE
        /\ pendingTimeouts = 0
        /\ selectedLine = NoLine
        /\ drag = NoDrag
        /\ keydown = [rowPositions |-> rowPositions, colPositions |-> colPositions]

InitSplit ==
    /\ build \in Builds
    /\ \/ /\ imageSrc = FALSE
          /\ rows = InitialRows
          /\ cols = InitialCols
          /\ rowPositions = <<0, 25000, 50000, 75000, 100000>>
          /\ colPositions = <<0, 25000, 50000, 75000, 100000>>
          /\ history = <<>>
          /\ historyIndex = -1
          /\ isUndoRedo = FALSE
          /\ pendingTimeouts = 0
          /\ selectedLine = NoLine
          /\ drag = NoDrag
          /\ keydown = [rowPositions |-> rowPositions, colPositions |-> colPositions]
       \/ \E r \in SplitCounts, c \in SplitCounts : LoadedGrid(r, c)
    /\ lastOp = Op("init", FALSE, NoState)
    /\ budget = MaxSplitEvents
    /\ paddingX = 0
    /\ paddingY = 0
    /\ outputSize = AutoSize
    /\ format = "png"
    /\ isProcessing = FALSE
    /\ results = NoResults
    /\ editingResult = NoEditing
    /\ split = NoSplit
    /\ alerts = <<>>
    /\ composed = NoCompose
    /\ urls = 0
    /\ faults = MaxFaults
    /\ modal = NoModal
    /\ modalKeys = NoKeys
    /\ saving = <<>>

NextSplit ==
    \/ \E f \in Formats : setFormat(f)
    \/ \E size \in OutputSizes : setOutputSize(size)
    \/ \E val \in Paddings : handlePaddingChange(val)
    \/ handleSplit
    \/ \E env \in Envs : splitCell(env)
    \/ closeGallery

SpecSplit == InitSplit /\ [][NextSplit]_vars

(***************************************************************************)
(* A batch split with the edits the user makes while it is suspended in    *)
(* a compose call: the session has a grid and export settings, one split   *)
(* is started, and count changes, undo and the export settings arrive      *)
(* between the cells.                                                      *)
(***************************************************************************)
MaxBatchEvents == 2
\* <<rows, cols>> of the grid the split is started on
BatchGrids == {<<1, 2>>, <<2, 2>>}
\* padding, output size and format when the split is started
BatchSettings ==
    {[padding |-> 0, outputSize |-> AutoSize, format |-> "png"],
     [padding |-> 50, outputSize |-> AutoSize, format |-> "gif"],
     [padding |-> 50, outputSize |-> [auto |-> FALSE, px |-> 128], format |-> "png"],
     [padding |-> 0, outputSize |-> [auto |-> FALSE, px |-> 128], format |-> "gif"]}
\* counts typed into the row input while the split runs
BatchCounts == {3}
\* what the browser does to one compose of the batch
BatchEnvs == {NoFault,
              [NoFault EXCEPT !.baseCtx = FALSE],
              [NoFault EXCEPT !.gif = "encodeThrows"]}

InitBatch ==
    /\ build \in Builds
    /\ \E g \in BatchGrids : LoadedGrid(g[1], g[2])
    /\ lastOp = Op("init", FALSE, NoState)
    /\ budget = MaxBatchEvents
    /\ \E s \in BatchSettings :
          /\ paddingX = s.padding
          /\ paddingY = s.padding
          /\ outputSize = s.outputSize
          /\ format = s.format
    /\ isProcessing = FALSE
    /\ results = NoResults
    /\ editingResult = NoEditing
    /\ split = NoSplit
    /\ alerts = <<>>
    /\ composed = NoCompose
    /\ urls = 0
    /\ faults = MaxFaults
    /\ modal = NoModal
    /\ modalKeys = NoKeys
    /\ saving = <<>>

NextBatch ==
    \/ handleSplit
    \/ \E env \in BatchEnvs : splitCell(env)
    \/ \E f \in Formats : setFormat(f)
    \/ \E size \in OutputSizes : setOutputSize(size)
    \/ \E val \in Paddings : handlePaddingChange(val)
    \/ \E n \in BatchCounts : handleRowChange(n)
    \/ handleUndo
    \/ isUndoRedoTimeout
    \/ closeGallery

SpecBatch == InitBatch /\ [][NextBatch]_vars

\* every awaited generateImageBlob settles: toBlob calls its callback and
\* the import and the encoder return or throw
FairBatch == SpecBatch /\ WF_vars(\E env \in BatchEnvs : splitCell(env))

(***************************************************************************)
(* The fine-tune editor, SingleAdjustModal.  modal is the component state  *)
(* while the editor is mounted.  modalKeys is the closure of its keydown   *)
(* listener: the props and state of the render that installed it; the      *)
(* listener is re-installed when a dependency of its effect changes,       *)
(* [hasNext, hasPrev] in part_000 and [activeTab, isSquare, isFixedSize,   *)
(* hasNext, hasPrev, rect, margins, offset, bgColor] in App.tsx.  saving   *)
(* holds, for every handleSaveWithNavigation that awaits its               *)
(* generateImageBlob, the closure it runs in; saveSettles is its           *)
(* continuation.                                                           *)
(***************************************************************************)
MaxTuneEvents == 3
MaxPending == 1

TuneGrids == {<<2, 2>>}
\* the export settings of the split: padding, output size, format
TuneSettings ==
    {[padding |-> 0, outputSize |-> AutoSize, format |-> "png"],
     [padding |-> 50, outputSize |-> AutoSize, format |-> "gif"],
     [padding |-> 50, outputSize |-> [auto |-> FALSE, px |-> 128], format |-> "png"],
     [padding |-> 0, outputSize |-> [auto |-> FALSE, px |-> 128], format |-> "gif"]}
MoveDirs == {"right", "up"}
Fields == {"w", "h"}
TypedValues == {"", "0", "abc"}
Directions == {"next", "prev", "close"}
TuneEnvs == {NoFault, [NoFault EXCEPT !.baseCtx = FALSE]}

\* the component instance of every pending save is gone
Unmounted(pending) ==
    [k \in 1..Len(pending) |-> [pending[k] EXCEPT !.mounted = FALSE]]

\* results.findIndex(r => r.id === id)
FindIndex(list, id) ==
    LET found == {k \in 1..Len(list) : list[k].id = id}
    IN  IF found = {} THEN -1
        ELSE (CHOOSE k \in found : \A j \in found : k <= j) - 1

\* the hasNext and hasPrev props App computes for the editor
HasNext(res, ed) ==
    res.open /\ FindIndex(res.list, ed.result.id) < Len(res.list) - 1
HasPrev(res, ed) ==
    res.open /\ FindIndex(res.list, ed.result.id) > 0

\* what a closure of the editor reads: the result prop, the component
\* state m, and the handlers of the App render (handleSaveSingle,
\* handleNextEdit, handlePrevEdit), which hold that render's editingResult
\* and results
Closure(result, m, ed, res) ==
    [result |-> result, rect |-> m.rect, margins |-> m.margins,
     offset |-> m.offset, isSquare |-> m.isSquare, bgColor |-> m.bgColor,
     hasNext |-> HasNext(res, ed), hasPrev |-> HasPrev(res, ed),
     editingResult |-> ed, results |-> res]

\* the useState and useRef initialisers of the editor
Mounted(result) ==
    LET bg == IF result.bgColor = "undefined" THEN "white" ELSE result.bgColor
    IN  [rect |-> result.originalRect, margins |-> result.margins,
         offset |-> result.offset, isSquare |-> result.isSquare,
         bgColor |-> bg, activeTab |-> "crop", isSaving |-> FALSE,
         userPrefBgColor |-> bg, userPrefIsSquare |-> result.isSquare]

\* the effect on [result]
ResultEffect(m, result) ==
    LET fixed == ~result.outputSize.auto
        hasBg == result.bgColor # "undefined"
    IN  [m EXCEPT
           !.rect = result.originalRect,
           !.margins = result.margins,
           !.offset = result.offset,
           !.activeTab = IF fixed THEN "layout" ELSE @,
           !.bgColor = IF hasBg THEN result.bgColor ELSE m.userPrefBgColor,
           !.userPrefBgColor = IF hasBg THEN result.bgColor ELSE @,
           !.isSquare = IF fixed THEN TRUE
                        ELSE IF result.hasExtra THEN result.isSquare
                        ELSE m.userPrefIsSquare,
           !.userPrefIsSquare = IF ~fixed /\ result.hasExtra
                                THEN result.isSquare ELSE @]

\* the editor after App has set editingResult to ed1 and results to res1:
\* unmounted, mounted, or re-rendered with the effect on [result]; touched
\* says that a dependency of the keydown effect of App.tsx was set
Rerender(m, keys, ed0, ed1, res1, touched) ==
    IF ~ed1.open THEN [modal |-> NoModal, modalKeys |-> NoKeys]
    ELSE IF ~ed0.open
    THEN LET first == Mounted(ed1.result)
             after == ResultEffect(first, ed1.result)
         IN  [modal |-> after,
              modalKeys |-> Closure(ed1.result,
                                    IF build = "App" THEN after ELSE first,
                                    ed1, res1)]
    ELSE LET changed == ed1.result # ed0.result
             after == IF changed THEN ResultEffect(m, ed1.result) ELSE m
             navChanged == \/ HasNext(res1, ed1) # keys.hasNext
                           \/ HasPrev(res1, ed1) # keys.hasPrev
         IN  [modal |-> after,
              modalKeys |->
                IF build = "App"
                THEN IF changed \/ touched \/ navChanged
                     THEN Closure(ed1.result, after, ed1, res1) ELSE keys
                ELSE IF navChanged
                     THEN Closure(ed1.result, m, ed1, res1) ELSE keys]

\* the canvas of the preview effect for the component state m
PreviewCanvas(m) ==
    LET contentW == m.rect.w + m.margins.left + m.margins.right
        contentH == m.rect.h + m.margins.top + m.margins.bottom
        w == IF contentW > PxUnit THEN contentW ELSE PxUnit
        h == IF contentH > PxUnit THEN contentH ELSE PxUnit
        side == IF w >= h THEN w ELSE h
    IN  [width |-> CanvasDim(IF m.isSquare THEN side ELSE w, 300),
         height |-> CanvasDim(IF m.isSquare THEN side ELSE h, 150)]

TuneEvent(name) ==
    /\ budget > 0
    /\ budget' = budget - 1
    /\ lastOp' = Op(name, FALSE, NoState)
    /\ UNCHANGED gridVars
    /\ UNCHANGED <<paddingX, paddingY, outputSize, format, isProcessing, split>>

\* onEdit of ResultsGallery on the k-th result
onEdit(k) ==
    LET ed1 == [open |-> TRUE, result |-> results.list[k]]
        r == Rerender(modal, modalKeys, editingResult, ed1, results, FALSE)
    IN  /\ results.open
        /\ ~editingResult.open
        /\ k <= Len(results.list)
        /\ TuneEvent("onEdit")
        /\ editingResult' = ed1
        /\ modal' = r.modal
        /\ modalKeys' = r.modalKeys
        /\ UNCHANGED <<results, alerts, composed, urls, faults, saving>>

\* onClose of SingleAdjustModal: setEditingResult(null)
onClose ==
    /\ editingResult.open
    /\ TuneEvent("onClose")
    /\ editingResult' = NoEditing
    /\ modal' = NoModal
    /\ modalKeys' = NoKeys
    /\ saving' = Unmounted(saving)
    /\ UNCHANGED <<results, alerts, composed, urls, faults>>

\* a state setter of the editor gives the component state m1
ModalEdit(name, m1) ==
    LET r == Rerender(m1, modalKeys, editingResult, editingResult, results, TRUE)
    IN  /\ editingResult.open
        /\ TuneEvent(name)
        /\ modal' = r.modal
        /\ modalKeys' = r.modalKeys
        /\ UNCHANGED <<results, editingResult, alerts, composed, urls, faults,
                       saving>>

setActiveTab(tab) == ModalEdit("setActiveTab", [modal EXCEPT !.activeTab = tab])

\* a button of CompactDirectionControl: onMove(dir, 1)
handleDirectionMove(dir) ==
    LET val == PxUnit
        dx == IF dir = "left" THEN -val ELSE IF dir = "right" THEN val ELSE 0
        dy == IF dir = "up" THEN -val ELSE IF dir = "down" THEN val ELSE 0
    IN  ModalEdit("handleDirectionMove",
                  IF modal.activeTab = "crop"
                  THEN [modal EXCEPT !.rect.x = @ + dx, !.rect.y = @ + dy]
                  ELSE IF modal.isSquare
                  THEN [modal EXCEPT !.offset.x = @ + dx, !.offset.y = @ + dy]
                  ELSE [modal EXCEPT !.margins.left = @ + dx,
                                     !.margins.top = @ + dy])

\* the minus and plus buttons of W and H on the crop tab
resizeRect(field, delta) ==
    /\ modal.activeTab = "crop"
    /\ ModalEdit("resizeRect",
                 IF field = "w"
                 THEN [modal EXCEPT !.rect.w = @ + delta * PxUnit]
                 ELSE [modal EXCEPT !.rect.h = @ + delta * PxUnit])

\* parseInt of the text typed into a number field
ParseInt(valStr) ==
    IF valStr = "0" THEN 0 ELSE NaN

handleInputChange(field, valStr) ==
    LET val == ParseInt(valStr)
        px == IF val > 1 THEN val ELSE 1
    IN  /\ modal.activeTab = "crop"
        /\ ModalEdit("handleInputChange",
                     IF valStr = "" \/ val = NaN THEN modal
                     ELSE IF field = "w"
                     THEN [modal EXCEPT !.rect.w = px * PxUnit]
                     ELSE [modal EXCEPT !.rect.h = px * PxUnit])

\* the square checkbox of the layout tab; it ignores input when the result
\* has a fixed output size
handleIsSquareChange(val) ==
    /\ modal.activeTab = "layout"
    /\ val # modal.isSquare
    /\ editingResult.result.outputSize.auto
    /\ ModalEdit("handleIsSquareChange",
                 [modal EXCEPT !.isSquare = val, !.userPrefIsSquare = val])

handleBgChange(color) ==
    /\ modal.activeTab = "layout"
    /\ ModalEdit("handleBgChange",
                 [modal EXCEPT !.bgColor = color, !.userPrefBgColor = color])

\* handleSaveWithNavigation up to its await, run in the closure cl
handleSaveWithNavigation(name, direction, cl) ==
    /\ editingResult.open
    /\ Len(saving) < MaxPending
    /\ TuneEvent(name)
    /\ saving' = Append(saving, [closure |-> cl, direction |-> direction,
                                  mounted |-> TRUE])
    /\ modal' = [modal EXCEPT !.isSaving = TRUE]
    /\ UNCHANGED <<results, editingResult, alerts, composed, urls, faults,
                   modalKeys>>

\* the save, previous and next buttons, in the closure of the current render
saveButton(direction) ==
    /\ editingResult.open
    /\ direction = "next" => HasNext(results, editingResult)
    /\ direction = "prev" => HasPrev(results, editingResult)
    /\ handleSaveWithNavigation("saveButton", direction,
           Closure(editingResult.result, modal, editingResult, results))

\* Alt+ArrowRight and Alt+ArrowLeft, in the closure of the keydown listener
saveShortcut(key) ==
    /\ editingResult.open
    /\ IF key = "ArrowRight" THEN modalKeys.hasNext ELSE modalKeys.hasPrev
    /\ handleSaveWithNavigation("saveShortcut",
           IF key = "ArrowRight" THEN "next" ELSE "prev", modalKeys)

\* handleSaveSingle in the App closure (ed, res): the results it sets
handleSaveSingle(ed, res, newBlob, newUrl, extra) ==
    [open |-> TRUE,
     list |-> [k \in 1..Len(res.list) |->
                 IF res.list[k].id = ed.result.id
                 THEN [res.list[k] EXCEPT
                         !.blob = newBlob, !.dataUrl = newUrl,
                         !.hasExtra = TRUE, !.margins = extra.margins,
                         !.offset = extra.offset, !.isSquare = extra.isSquare,
                         !.originalRect = extra.originalRect,
                         !.bgColor = extra.bgColor]
                 ELSE res.list[k]]]

\* handleNextEdit and handlePrevEdit in the App closure (ed, res): the
\* editingResult they leave, given the current one
Navigate(direction, ed, res, current) ==
    LET idx == FindIndex(res.list, ed.result.id)
    IN  IF ~res.open \/ direction = "close" THEN current
        ELSE IF direction = "next"
        THEN IF idx < Len(res.list) - 1
             THEN [open |-> TRUE, result |-> res.list[idx + 2]] ELSE current
        ELSE IF idx > 0
             THEN [open |-> TRUE, result |-> res.list[idx]] ELSE current

\* the generateImageBlob awaited by the i-th pending save settles under env
\* and handleSaveWithNavigation runs to its end
saveSettles(i, env) ==
    LET cl == saving[i].closure
        direction == saving[i].direction
        fmt == IF cl.result.extension = "gif" THEN "gif" ELSE "png"
        \* result.outputSize || 'auto'
        size == IF cl.result.outputSize.auto \/ cl.result.outputSize.px = 0
                THEN AutoSize ELSE cl.result.outputSize
        out == generateImageBlob(cl.rect, cl.margins, cl.offset, cl.isSquare,
                                 cl.bgColor, size, fmt, env)
        extra == [margins |-> cl.margins, offset |-> cl.offset,
                  isSquare |-> cl.isSquare, originalRect |-> cl.rect,
                  bgColor |-> cl.bgColor]
        \* handleSaveSingle returns early on a closure without results
        saves == cl.results.open
        \* URL.createObjectURL(null) throws a TypeError
        thrown == out.status = "rejected" \/ (saves /\ out.blob = NullBlob)
        res1 == IF saves
                THEN handleSaveSingle(cl.editingResult, cl.results, out.blob,
                                      urls + 1, extra)
                ELSE results
        ed1 == IF saves /\ direction = "close" THEN NoEditing ELSE editingResult
        ed2 == Navigate(direction, cl.editingResult, cl.results, ed1)
        \* setIsSaving(false) reaches the instance that started the save
        m1 == IF saving[i].mounted THEN [modal EXCEPT !.isSaving = FALSE]
              ELSE modal
        r == Rerender(m1, modalKeys, editingResult, ed2, res1, FALSE)
        rest == [k \in 1..(Len(saving) - 1) |->
                   IF k < i THEN saving[k] ELSE saving[k + 1]]
    IN  /\ i <= Len(saving)
        /\ env = NoFault \/ faults > 0
        /\ faults' = IF env = NoFault THEN faults ELSE faults - 1
        /\ saving' = IF ~thrown /\ editingResult.open /\ ~ed2.open
                      THEN Unmounted(rest) ELSE rest
        /\ composed' = [calls |-> composed.calls + 1, rect |-> cl.rect,
                        margins |-> cl.margins, offset |-> cl.offset,
                        isSquare |-> cl.isSquare, bgColor |-> cl.bgColor,
                        outputSize |-> size, format |-> fmt, out |-> out,
                        env |-> env, by |-> "handleSaveWithNavigation"]
        /\ alerts' = alerts \o out.alerts
        /\ IF thrown
           THEN UNCHANGED <<results, editingResult, urls, modal, modalKeys>>
           ELSE /\ results' = res1
                /\ urls' = IF saves THEN urls + 1 ELSE urls
                /\ editingResult' = ed2
                /\ modal' = r.modal
                /\ modalKeys' = r.modalKeys
        /\ UNCHANGED <<paddingX, paddingY, outputSize, format, isProcessing,
                       split>>
        /\ UNCHANGED gridVars
        /\ UNCHANGED <<lastOp, budget>>

\* the results a split without failures publishes
PublishedResults(sr, sc, padX, padY, size, fmt) ==
    LET nc == Len(sc) - 1
    IN  [k \in 1..((Len(sr) - 1) * nc) |->
           LET rect == CellRect(sr, sc, padX, padY, (k - 1) \div nc, (k - 1) % nc)
               out == generateImageBlob(rect, ZeroMargins, ZeroOffset, FALSE,
                                        "transparent", size, fmt, NoFault)
           IN  SplitResult(k - 1, k, out.blob, fmt, rect, size)]

\* a session whose split has published its results, the editor closed or
\* just opened on one of them
InitTune ==
    /\ build \in Builds
    /\ \E g \in TuneGrids : LoadedGrid(g[1], g[2])
    /\ lastOp = Op("init", FALSE, NoState)
    /\ budget = MaxTuneEvents
    /\ \E st \in TuneSettings :
          /\ paddingX = st.padding
          /\ paddingY = st.padding
          /\ outputSize = st.outputSize
          /\ format = st.format
    /\ isProcessing = FALSE
    /\ results = [open |-> TRUE,
                  list |-> PublishedResults(rowPositions, colPositions,
                                            paddingX, paddingY, outputSize,
                                            format)]
    /\ \/ editingResult = NoEditing
       \/ \E k \in 1..Len(results.list) :
             editingResult = [open |-> TRUE, result |-> results.list[k]]
    /\ LET r == Rerender(NoModal, NoKeys, NoEditing, editingResult, results, FALSE)
       IN  modal = r.modal /\ modalKeys = r.modalKeys
    /\ split = NoSplit
    /\ alerts = <<>>
    /\ composed = NoCompose
    /\ urls = Len(results.list)
    /\ faults = MaxFaults
    /\ saving = <<>>

NextTune ==
    \/ \E k \in 1..4 : onEdit(k)
    \/ onClose
    \/ closeGallery
    \/ \E tab \in {"crop", "layout"} : setActiveTab(tab)
    \/ \E dir \in MoveDirs : handleDirectionMove(dir)
    \/ \E field \in Fields, delta \in {-1, 1} : resizeRect(field, delta)
    \/ \E field \in Fields, valStr \in TypedValues : handleInputChange(field, valStr)
    \/ \E val \in BOOLEAN : handleIsSquareChange(val)
    \/ \E color \in {"white", "transparent"} : handleBgChange(color)
    \/ \E direction \in Directions : saveButton(direction)
    \/ \E key \in {"ArrowRight", "ArrowLeft"} : saveShortcut(key)
    \/ \E i \in 1..MaxPending, env \in TuneEnvs : saveSettles(i, env)

SpecTune == InitTune /\ [][NextTune]_vars

(***************************************************************************)
(* The pure functions of the geometry, applied to inputs from bounded      *)
(* sets: the line arrays and paddings of the state, an image size and a    *)
(* cell for the cell rectangle, a count for generatePositions.  composed   *)
(* and lastOp record the last application.                                 *)
(***************************************************************************)
MaxPositionsCount == 20

\* sorted line arrays: even thirds, halves, two coinciding lines
LineArrays == {<<0, 100 * Unit>>, <<0, 50 * Unit, 100 * Unit>>,
               <<0, 33330, 66670, 100 * Unit>>,
               <<0, 50 * Unit, 50 * Unit, 100 * Unit>>}
ImageSizes == {[w |-> 400, h |-> 200], [w |-> 40, h |-> 30],
               [w |-> 257, h |-> 300]}
FnPaddings == {0, 7, 50}
FnCounts == (-1)..MaxPositionsCount

InitFn ==
    /\ build \in Builds
    /\ imageSrc = TRUE
    /\ rowPositions \in LineArrays
    /\ colPositions \in LineArrays
    /\ rows = Len(rowPositions) - 1
    /\ cols = Len(colPositions) - 1
    /\ history = <<HistoryState(rows, cols, rowPositions, colPositions)>>
    /\ historyIndex = 0
    /\ isUndoRedo = FALSE
    /\ pendingTimeouts = 0
    /\ selectedLine = NoLine
    /\ drag = NoDrag
    /\ keydown = [rowPositions |-> rowPositions, colPositions |-> colPositions]
    /\ lastOp = Op("init", FALSE, NoState)
    /\ budget = 0
    /\ paddingX \in FnPaddings
    /\ paddingY \in FnPaddings
    /\ outputSize = AutoSize
    /\ format = "png"
    /\ isProcessing = FALSE
    /\ results = NoResults
    /\ editingResult = NoEditing
    /\ split = NoSplit
    /\ alerts = <<>>
    /\ composed = NoCompose
    /\ urls = 0
    /\ faults = 0
    /\ modal = NoModal
    /\ modalKeys = NoKeys
    /\ saving = <<>>

\* the cell rectangle of cell (r, c) of an image of the given size
cellRect(image, r, c) ==
    /\ r + 2 <= Len(rowPositions)
    /\ c + 2 <= Len(colPositions)
    /\ composed' = [calls |-> 1, by |-> "cellRect", image |-> image,
                    r |-> r, c |-> c,
                    rect |-> CellRectOf(image.w, image.h, rowPositions,
                                        colPositions, paddingX, paddingY, r, c)]
    /\ UNCHANGED gridVars
    /\ UNCHANGED <<lastOp, budget, paddingX, paddingY, outputSize, format,
                   isProcessing, results, editingResult, split, alerts, urls,
                   faults>>
    /\ UNCHANGED tuneVars

\* generatePositions(count)
positions(count) ==
    /\ lastOp' = [name |-> "generatePositions", pushed |-> FALSE,
                  state |-> [rows |-> count, cols |-> 0,
                             rowPositions |-> generatePositions(count),
                             colPositions |-> <<>>]]
    /\ UNCHANGED <<build, imageSrc, rows, cols, rowPositions, colPositions,
                   history, historyIndex, isUndoRedo, pendingTimeouts,
                   selectedLine, drag, keydown, budget>>
    /\ UNCHANGED outVars

NextFn ==
    \/ \E image \in ImageSizes, r \in 0..2, c \in 0..2 : cellRect(image, r, c)
    \/ \E count \in FnCounts : positions(count)

SpecFn == InitFn /\ [][NextFn]_vars

(***************************************************************************)
(* The compositor applied to inputs from bounded sets; composed records    *)
(* the last call.                                                          *)
(***************************************************************************)
\* one pixel, the output size, a wide cell, a cell of 128.5 pixels
ComposeRects == {[x |-> 0, y |-> 0, w |-> 100, h |-> 100],
                 [x |-> 0, y |-> 0, w |-> 12800, h |-> 12800],
                 [x |-> 20000, y |-> 0, w |-> 20000, h |-> 10000],
                 [x |-> 0, y |-> 0, w |-> 12850, h |-> 12800]}
ComposeMargins == {ZeroMargins,
                   [top |-> 1000, bottom |-> 0, left |-> 0, right |-> 2000]}

InitCompose ==
    /\ build \in Builds
    /\ LoadedGrid(1, 1)
    /\ lastOp = Op("init", FALSE, NoState)
    /\ budget = 0
    /\ InitOut

compose(rect, margins, isSquare, bgColor, size, fmt, env) ==
    /\ composed' = [calls |-> 1, rect |-> rect, margins |-> margins,
                    offset |-> ZeroOffset, isSquare |-> isSquare,
                    bgColor |-> bgColor, outputSize |-> size, format |-> fmt,
                    out |-> generateImageBlob(rect, margins, ZeroOffset,
                                              isSquare, bgColor, size, fmt, env),
                    env |-> env, by |-> "generateImageBlob"]
    /\ UNCHANGED gridVars
    /\ UNCHANGED <<lastOp, budget, paddingX, paddingY, outputSize, format,
                   isProcessing, results, editingResult, split, alerts, urls,
                   faults>>
    /\ UNCHANGED tuneVars

NextCompose ==
    \E rect \in ComposeRects, margins \in ComposeMargins, isSquare \in BOOLEAN,
       bgColor \in {"white", "transparent"}, size \in OutputSizes,
       fmt \in Formats, env \in Envs :
         compose(rect, margins, isSquare, bgColor, size, fmt, env)

SpecCompose == InitCompose /\ [][NextCompose]_vars

(***************************************************************************)
(* Properties.                                                             *)
(***************************************************************************)
Live == HistoryState(rows, cols, rowPositions, colPositions)

IsSorted(arr) ==
    \A k \in 1..(Len(arr) - 1) :
        (IsNum(arr[k]) /\ IsNum(arr[k + 1])) => arr[k] <= arr[k + 1]

\* C1: in every reachable state the row line array has rows + 1 elements
\* and the column line array has cols + 1 elements.
C1_LengthIsCountPlusOne ==
    /\ Len(rowPositions) = rows + 1
    /\ Len(colPositions) = cols + 1

\* C2: in every reachable state both line arrays are in non-decreasing
\* order (checked on the numeric elements).
C2_LinesSorted == IsSorted(rowPositions) /\ IsSorted(colPositions)

\* the entries up to and including the pointer: history.slice(0, historyIndex + 1)
UpToPointer == SubSeq(history, 1, historyIndex + 1)

PointerValid == historyIndex >= 0 /\ historyIndex < Len(history)
PointerValidNext == historyIndex' >= 0 /\ historyIndex' < Len(history')

Released == drag.active /\ ~drag'.active
Moved == drag.moved

\* C3: the release of a drag that moved a line commits exactly one snapshot,
\* the grid that is live at the release, on top of the entry the pointer was
\* on, and that entry holds the line positions the drag started from (so
\* that an undo returns to them).
C3_ReleaseCommitsPostDragGrid ==
    [][(Released /\ Moved) =>
         /\ PointerValid
         /\ history' = Append(UpToPointer, Live')
         /\ historyIndex' = historyIndex + 1
         /\ history[historyIndex + 1].rowPositions = drag.rowPositions
         /\ history[historyIndex + 1].colPositions = drag.colPositions]_vars

NudgeStep == lastOp'.name \in {"handleKeyDown", "onNudge"}

\* C4: a nudge (arrow key or nudge button) that changes a line position
\* commits one snapshot of the resulting grid at once; when the resulting
\* grid equals the entry at the pointer no entry is added.
C4_NudgeCommitsSnapshot ==
    [][(NudgeStep /\ Live' # Live /\ PointerValid) =>
         IF JsonState(Live') = JsonState(history[historyIndex + 1])
         THEN /\ historyIndex' = historyIndex
              /\ history' = UpToPointer
         ELSE /\ historyIndex' = historyIndex + 1
              /\ history' = Append(UpToPointer, Live')]_vars

\* a push is a call of addToHistory that the flag isUndoRedo does not suppress
Pushed == lastOp'.pushed
PushedState == lastOp'.state

\* C5: a push of s while the pointer is below the top, s different from the
\* entry at the pointer, drops the entries above the pointer, appends s and
\* leaves the pointer on s (so redo is unavailable); the entries up to the
\* old pointer are unchanged.
C5_PushBelowTopTruncates ==
    [][(/\ Pushed
        /\ PointerValid
        /\ historyIndex < Len(history) - 1
        /\ JsonState(PushedState) # JsonState(history[historyIndex + 1])) =>
         /\ history' = Append(UpToPointer, PushedState)
         /\ historyIndex' = Len(history') - 1]_vars

\* C6: a push of a state structurally equal to the entry at the pointer adds
\* no entry, and the pointer still designates that entry.
C6_PushOfEqualStateAddsNothing ==
    [][(/\ Pushed
        /\ PointerValid
        /\ JsonState(PushedState) = JsonState(history[historyIndex + 1])) =>
         /\ Len(history') <= Len(history)
         /\ historyIndex' = historyIndex
         /\ PointerValidNext
         /\ history'[historyIndex' + 1] = history[historyIndex + 1]]_vars

\* C7: with the pointer at the top and s different from the top, push(s)
\* puts s right above the old top; undo then sets the live grid to exactly
\* the entry below the pointer (the pre-push entry) and redo sets it to
\* exactly the entry above (s), neither changing the history.
C7_PushUndoRedoRoundTrip ==
    /\ [][(/\ Pushed
           /\ PointerValid
           /\ historyIndex = Len(history) - 1
           /\ JsonState(PushedState) # JsonState(history[historyIndex + 1])) =>
            /\ history' = Append(history, PushedState)
            /\ historyIndex' = historyIndex + 1]_vars
    /\ [][(lastOp'.name = "handleUndo" /\ PointerValid /\ historyIndex > 0) =>
            /\ Live' = history[historyIndex]
            /\ historyIndex' = historyIndex - 1
            /\ history' = history]_vars
    /\ [][(/\ lastOp'.name = "handleRedo"
           /\ PointerValid
           /\ historyIndex < Len(history) - 1) =>
            /\ Live' = history[historyIndex + 2]
            /\ historyIndex' = historyIndex + 1
            /\ history' = history]_vars

\* C8: once an image is loaded the history is non-empty and the pointer
\* designates one of its entries.
C8_PointerInBounds ==
    imageSrc => (Len(history) >= 1 /\ PointerValid)

\* C9: when an image load completes the history is exactly one entry, the
\* uniform 4x4 grid, the pointer is 0 and that entry equals the live grid.
C9_LoadSeedsHistoryWithLiveGrid ==
    lastOp.name = "handleUpload" =>
        /\ history = <<HistoryState(4, 4, generatePositions(4),
                                    generatePositions(4))>>
        /\ historyIndex = 0
        /\ history[1] = Live

\* C10: a change of the row (column) count to n sets that axis to the
\* uniform generatePositions(n), leaves the other axis' count and lines
\* unchanged, and the entry at the pointer afterwards is the live grid.
C10_CountChangeRegeneratesAndPushes ==
    /\ [][lastOp'.name = "handleRowChange" =>
            /\ rowPositions' = generatePositions(rows')
            /\ cols' = cols /\ colPositions' = colPositions
            /\ PointerValidNext
            /\ history'[historyIndex' + 1] = Live']_vars
    /\ [][lastOp'.name = "handleColChange" =>
            /\ colPositions' = generatePositions(cols')
            /\ rows' = rows /\ rowPositions' = rowPositions
            /\ PointerValidNext
            /\ history'[historyIndex' + 1] = Live']_vars

InRange(arr) ==
    \A k \in 1..Len(arr) : IsNum(arr[k]) => (arr[k] >= 0 /\ arr[k] <= 100 * Unit)

\* C11: starting from the uniform grid, no sequence of drags and nudges
\* leaves a line position below 0 or above 100.
C11_NudgeStaysWithinRange == InRange(rowPositions) /\ InRange(colPositions)

DragLines == IF drag.type = "row" THEN rowPositions ELSE colPositions
DragLinesNext == IF drag.type = "row" THEN rowPositions' ELSE colPositions'
AllNum(arr) == \A k \in 1..Len(arr) : IsNum(arr[k])
Count(arr, v) == Cardinality({k \in 1..Len(arr) : arr[k] = v})
SameValues(a, b) ==
    \A v \in {a[k] : k \in 1..Len(a)} \cup {b[k] : k \in 1..Len(b)} :
        Count(a, v) = Count(b, v)

\* the value w put at the 0-based index i lies beyond the next line or
\* before the previous one
Crosses(prev, i, w) ==
    \/ i + 1 < Len(prev) /\ w > prev[i + 2]
    \/ i > 0 /\ w < prev[i]

\* post is prev with w written at index i and re-sorted: same length, the
\* other values kept, no negative span, and when exactly one neighbour is
\* crossed the two values have exchanged indices
CrossingResult(prev, post, i, w) ==
    /\ Len(post) = Len(prev)
    /\ SameValues(post, ArraySet(prev, i, w))
    /\ \A k \in 1..(Len(post) - 1) : post[k] <= post[k + 1]
    /\ (/\ IsSorted(prev) /\ i + 1 < Len(prev) /\ w > prev[i + 2]
        /\ (i + 2 < Len(prev) => w <= prev[i + 3]))
          => /\ post[i + 1] = prev[i + 2] /\ post[i + 2] = w
             /\ \A k \in 1..Len(prev) : k \notin {i + 1, i + 2} => post[k] = prev[k]
    /\ (/\ IsSorted(prev) /\ i > 0 /\ w < prev[i]
        /\ (i > 1 => w >= prev[i - 1]))
          => /\ post[i + 1] = prev[i] /\ post[i] = w
             /\ \A k \in 1..Len(prev) : k \notin {i, i + 1} => post[k] = prev[k]

\* a pointer move of a drag whose line index designates a line of an
\* all-numeric array, where written is the value the move stores
CrossingMove(written) ==
    /\ lastOp'.name = "handleMove" /\ budget' < budget
    /\ drag.index < Len(DragLines)
    /\ AllNum(DragLines)
    /\ Crosses(DragLines, drag.index, written)

\* the value a drag move stores for the pointer percentage pct: the clamped
\* percentage, which src/unnamed/part_000 rounds to two decimals
Clamped(pct) ==
    IF pct < 0 THEN 0 ELSE IF pct > 100 * Unit THEN 100 * Unit ELSE pct

Stored(pct) ==
    IF build = "App" THEN Clamped(pct) ELSE ((Clamped(pct) + 5) \div 10) * 10

SplitEnds == split.active /\ ~split'.active
\* a step in which the catch block of handleSplit runs
SplitFails ==
    /\ SplitEnds
    /\ Len(alerts') > Len(alerts)
    /\ alerts'[Len(alerts')] = "Error splitting image"
\* a step in which handleSplit publishes its results
Publishes == SplitEnds /\ ~SplitFails
GridRows == Len(split.sortedRows) - 1
GridCols == Len(split.sortedCols) - 1

\* C13: a split that publishes over R rows and C columns publishes exactly
\* R*C results; the k-th (from 0) has id k and the Rect of the cell in row
\* k div C, column k mod C; and every cell of a split is composed with zero
\* margins, zero offset, isSquare false and transparent background.
C13_SplitPublishesRowMajor ==
    /\ [][Publishes =>
            /\ results'.open
            /\ Len(results'.list) = GridRows * GridCols
            /\ \A k \in 0..(GridRows * GridCols - 1) :
                 /\ results'.list[k + 1].id = k
                 /\ results'.list[k + 1].originalRect =
                      CellRect(split.sortedRows, split.sortedCols,
                               split.paddingX, split.paddingY,
                               k \div GridCols, k % GridCols)]_vars
    /\ [][(split.active /\ composed'.calls > composed.calls) =>
            /\ composed'.margins = ZeroMargins
            /\ composed'.offset = ZeroOffset
            /\ composed'.isSquare = FALSE
            /\ composed'.bgColor = "transparent"]_vars

\* C13 witness: a 2x2 split has published four results; the last one has
\* id 3 and the rectangle of row 1, column 1 of the 400x200 image.
C13_Witness ==
    /\ results.open /\ Len(results.list) = 4
    /\ results.list[4].id = 3
    /\ results.list[4].originalRect = [x |-> 20000, y |-> 10000, w |-> 20000, h |-> 10000]
    /\ results.list[2].originalRect = [x |-> 20000, y |-> 0, w |-> 20000, h |-> 10000]

\* C14: the loop of a split ends only after the last cell of the grid was
\* attempted, and it then publishes the results of the cells that succeeded.
C14_FailedCellDoesNotStopSplit ==
    [][SplitEnds =>
         /\ split.r = GridRows - 1 /\ split.c = GridCols - 1
         /\ results'.open
         /\ Len(results'.list) >= Len(split.newResults)]_vars

\* C15: handleSplit invoked with no image loaded makes no compositor call,
\* leaves results and isProcessing unchanged and reports exactly one error.
C15_SplitWithoutImageReportsOneError ==
    [][(lastOp'.name = "handleSplit" /\ budget' < budget /\ ~imageSrc) =>
         /\ composed' = composed
         /\ results' = results
         /\ isProcessing' = isProcessing
         /\ ~split'.active
         /\ Len(alerts') = Len(alerts) + 1]_vars

\* a compositor call asked for gif in which the encoder did not deliver:
\* the import or the encoding step threw
GifThrew(call) ==
    /\ call.calls > 0
    /\ call.format = "gif"
    /\ call.env.baseCtx
    /\ call.out.blob.type # "image/gif"

C17_NoContextFailsCompose ==
    composed.calls > 0 =>
        ((~composed.env.baseCtx \/ ~composed.out.final.painted)
            => composed.out.status = "rejected")

\* a step in which the compose awaited by a fine-tune save settles
SaveSettled ==
    /\ composed'.calls > composed.calls
    /\ composed'.by = "handleSaveWithNavigation"

(***************************************************************************)
(* C18: when the compose of a fine-tune save resolves after the editor     *)
(* was closed or the gallery was closed, the save is discarded: results    *)
(* is left as it is (a discarded result set is not recreated from the      *)
(* copy captured when the save started) and no error is reported.          *)
(***************************************************************************)
C18_ClosedSaveIsDiscarded ==
    [][(SaveSettled /\ (~editingResult.open \/ ~results.open))
          => (results' = results /\ alerts' = alerts)]_vars

\* a fine-tune save started in the editor that is still open stores its
\* result
SaveStored ==
    /\ SaveSettled
    /\ editingResult.open
    /\ \A i \in 1..Len(saving) : saving[i].mounted
    /\ results' # results

\* the result r after a save of what the step composed
Saved(r) ==
    [r EXCEPT !.blob = composed'.out.blob, !.dataUrl = urls',
              !.originalRect = composed'.rect, !.margins = composed'.margins,
              !.offset = composed'.offset, !.isSquare = composed'.isSquare,
              !.bgColor = composed'.bgColor, !.hasExtra = TRUE]

(***************************************************************************)
(* C19: a fine-tune save replaces blob, preview URL, originalRect,         *)
(* margins, offset, isSquare and bgColor of the result whose id is the id  *)
(* of the result being edited, and nothing else: its id, extension and     *)
(* outputSize stay, the composition uses its outputSize and format, and    *)
(* the other results and the order of the set are unchanged; by button or  *)
(* by Alt+Arrow, repeatedly while stepping through the results.            *)
(***************************************************************************)
C19_SaveReplacesEditedResult ==
    [][SaveStored =>
         /\ results'.open
         /\ Len(results'.list) = Len(results.list)
         /\ \A k \in 1..Len(results.list) :
              LET r == results.list[k]
              IN  IF r.id = editingResult.result.id
                  THEN /\ results'.list[k] = Saved(r)
                       /\ composed'.format = r.extension
                       /\ composed'.outputSize = r.outputSize
                  ELSE results'.list[k] = r]_vars

AtLeastOne(rect) == rect.w >= PxUnit /\ rect.h >= PxUnit

(***************************************************************************)
(* C20: every Rect handed to the compositor, and every Rect stored as the  *)
(* originalRect of a result, is at least one pixel wide and one pixel      *)
(* high, whatever splits, fine-tune edits (moves, the W/H minus and plus   *)
(* buttons, typed values) and saves came before.                           *)
(***************************************************************************)
C20_RectAtLeastOne ==
    /\ composed.calls > 0 => AtLeastOne(composed.rect)
    /\ results.open =>
         \A k \in 1..Len(results.list) : AtLeastOne(results.list[k].originalRect)

\* the pixel position of a line at pos percent of an extent of size pixels
LinePx(pos, size) == (pos * size) \div Unit
Max(a, b) == IF a >= b THEN a ELSE b

(***************************************************************************)
(* C21: for sorted line arrays, a cell within bounds, an image size and    *)
(* non-negative paddings, the cell rectangle is x = x1 + paddingX,         *)
(* y = y1 + paddingY, w = max(1, (x2 - x1) - 2 paddingX),                  *)
(* h = max(1, (y2 - y1) - 2 paddingY), so w >= 1 and h >= 1 even when the  *)
(* padding exceeds half the span or two lines coincide.                    *)
(***************************************************************************)
C21_CellRectClamped ==
    composed.calls > 0 =>
      LET x1 == LinePx(colPositions[composed.c + 1], composed.image.w)
          x2 == LinePx(colPositions[composed.c + 2], composed.image.w)
          y1 == LinePx(rowPositions[composed.r + 1], composed.image.h)
          y2 == LinePx(rowPositions[composed.r + 2], composed.image.h)
      IN  /\ composed.rect.x = x1 + paddingX * PxUnit
          /\ composed.rect.y = y1 + paddingY * PxUnit
          /\ composed.rect.w = Max(PxUnit, (x2 - x1) - 2 * paddingX * PxUnit)
          /\ composed.rect.h = Max(PxUnit, (y2 - y1) - 2 * paddingY * PxUnit)
          /\ composed.rect.w >= PxUnit
          /\ composed.rect.h >= PxUnit

\* a cell between two coinciding lines, with a padding above half of the
\* span of its columns, has been derived
C21_Witness ==
    /\ composed.calls > 0
    /\ rowPositions[composed.r + 1] = rowPositions[composed.r + 2]
    /\ paddingX * 2 * PxUnit >
         LinePx(colPositions[composed.c + 2], composed.image.w)
           - LinePx(colPositions[composed.c + 1], composed.image.w)
    /\ composed.rect.w = PxUnit
    /\ composed.rect.h = PxUnit

\* the count and the value of the last application of generatePositions
Generated == lastOp.name = "generatePositions"
GenCount == lastOp.state.rows
GenValue == lastOp.state.rowPositions

(***************************************************************************)
(* C22: for a count n from 1 to 20 generatePositions(n) has n + 1 values,  *)
(* strictly increasing, the first 0 and the last 100, the i-th equal to    *)
(* i * 100 / n rounded to two decimals; generatePositions(4) is            *)
(* [0, 25, 50, 75, 100]; for n < 1 the value is [0, 100].                  *)
(***************************************************************************)
C22_GeneratePositions ==
    Generated =>
      /\ (GenCount >= 1 /\ GenCount <= 20) =>
           /\ Len(GenValue) = GenCount + 1
           /\ GenValue[1] = 0
           /\ GenValue[GenCount + 1] = 100 * Unit
           /\ \A k \in 1..GenCount : GenValue[k] < GenValue[k + 1]
           /\ \A k \in 1..(GenCount + 1) :
                \* a number of two decimals, within half a hundredth of
                \* (k - 1) * 100 / n
                /\ GenValue[k] % (Unit \div 100) = 0
                /\ 2 * GenValue[k] * GenCount - 2 * (k - 1) * 100 * Unit
                     <= GenCount * (Unit \div 100)
                /\ 2 * (k - 1) * 100 * Unit - 2 * GenValue[k] * GenCount
                     <= GenCount * (Unit \div 100)
      /\ GenCount = 4 =>
           GenValue = <<0, 25 * Unit, 50 * Unit, 75 * Unit, 100 * Unit>>
      /\ GenCount < 1 => GenValue = <<0, 100 * Unit>>

\* generatePositions(3), whose inner values are rounded, has been computed
C22_Witness ==
    /\ Generated
    /\ GenCount = 3
    /\ GenValue = <<0, 33330, 66670, 100 * Unit>>

\* the width and height the claim gives the compose canvas, in pixels
ContentW(rect, margins) == rect.w + margins.left + margins.right
ContentH(rect, margins) == rect.h + margins.top + margins.bottom
ExpectedCanvas(rect, margins, isSquare) ==
    LET side == Max(ContentW(rect, margins), ContentH(rect, margins))
    IN  [width |-> IF isSquare THEN side ELSE ContentW(rect, margins),
         height |-> IF isSquare THEN side ELSE ContentH(rect, margins)]
\* the canvas a save of the editor's present state composes
SaveCanvas ==
    generateImageBlob(modal.rect, modal.margins, modal.offset, modal.isSquare,
                      modal.bgColor, AutoSize, "png", NoFault).canvas

(***************************************************************************)
(* C23: before any outputSize override the compose canvas is               *)
(* rect.w + margins.left + margins.right wide and                          *)
(* rect.h + margins.top + margins.bottom high when isSquare is false, and  *)
(* both dimensions are the larger of the two when isSquare is true; the    *)
(* preview canvas of the editor has the dimensions of the canvas the save  *)
(* composes.                                                               *)
(***************************************************************************)
C23_CanvasIsContentSize ==
    /\ (composed.calls > 0 /\ composed.by = "handleSaveWithNavigation") =>
         LET e == ExpectedCanvas(composed.rect, composed.margins,
                                 composed.isSquare)
         IN  /\ composed.out.canvas.width * PxUnit = e.width
             /\ composed.out.canvas.height * PxUnit = e.height
    /\ editingResult.open =>
         /\ PreviewCanvas(modal).width = SaveCanvas.width
         /\ PreviewCanvas(modal).height = SaveCanvas.height

\* the last compositor call produced an encoded image
Encoded == composed.calls > 0 /\ composed.out.status = "resolved"

C25_LiveGridIsCurrentEntry ==
    (imageSrc /\ ~drag.active) =>
       /\ PointerValid
       /\ history[historyIndex + 1] = Live

(***************************************************************************)
(* C26: a selected line's index is a position of its axis's line array     *)
(* (0 <= index <= count), also after a count decrease, a reset, an undo    *)
(* or a redo; so a nudge stays inside the array and the arrays hold        *)
(* numbers only.                                                           *)
(***************************************************************************)
C26_SelectedLineInArray ==
    /\ selectedLine.type # "none" =>
         /\ selectedLine.index >= 0
         /\ selectedLine.index < Len(Lines(selectedLine.type))
    /\ AllNum(rowPositions)
    /\ AllNum(colPositions)

UndoRedoStep ==
    /\ lastOp'.name \in {"handleUndo", "handleRedo"}
    /\ budget' < budget
LiveNext == HistoryState(rows', cols', rowPositions', colPositions')

(***************************************************************************)
(* C27: undo and redo only move the pointer and overwrite the live rows,   *)
(* cols, rowPositions and colPositions with the entry at the new pointer:  *)
(* no history entry is added, removed or changed, nothing is pushed, and   *)
(* padding, format, outputSize and the result set stay as they are.        *)
(***************************************************************************)
C27_UndoRedoOnlyMovePointer ==
    [][UndoRedoStep =>
         /\ history' = history
         /\ ~lastOp'.pushed
         /\ \/ historyIndex' = historyIndex /\ LiveNext = Live
            \/ /\ historyIndex' = historyIndex - 1 \/ historyIndex' = historyIndex + 1
               /\ PointerValidNext
               /\ LiveNext = history[historyIndex' + 1]
         /\ UNCHANGED <<paddingX, paddingY, format, outputSize, results>>]_vars

\* an undo has put back an entry that differs from the entry above it
C27_Witness ==
    /\ lastOp.name = "handleUndo"
    /\ historyIndex + 1 < Len(history)
    /\ Live = history[historyIndex + 1]
    /\ Live # history[historyIndex + 2]
    /\ isUndoRedo

\* a step in which the compose of a cell of the running split throws
CellComposeThrows ==
    /\ split.active
    /\ composed'.calls > composed.calls
    /\ composed'.out.status = "rejected"

(***************************************************************************)
(* C28: if the compose of a cell throws during a batch split, the batch    *)
(* reports exactly one failure alert, publishes no partial result set      *)
(* (results stays as it was) and the processing flag returns to false;     *)
(* in every run the processing flag is eventually false again.             *)
(***************************************************************************)
C28_FailedSplitReportsOnce ==
    /\ [][CellComposeThrows =>
            /\ alerts' = Append(alerts, "Error splitting image")
            /\ results' = results
            /\ ~isProcessing'
            /\ ~split'.active]_vars
    /\ (isProcessing ~> ~isProcessing)

\* the compose of a later cell has thrown after an earlier cell succeeded,
\* and the split has ended without results
C28_Witness ==
    /\ composed.calls >= 2
    /\ composed.by = "handleSplit"
    /\ composed.out.status = "rejected"
    /\ ~isProcessing
    /\ ~results.open
    /\ alerts = <<"Error splitting image">>


\* a step in which a running split is handed the outcome of a compose
CellComposed ==
    /\ split.active
    /\ composed'.calls > composed.calls
\* a step in which the user edits the grid or an export setting, or
\* undoes or redoes, while a split is suspended in a compose
EditDuringSplit ==
    /\ split.active
    /\ budget' < budget
    /\ lastOp'.name \in {"handleRowChange", "handleColChange", "handleUndo",
                         "handleRedo", "setFormat", "setOutputSize",
                         "handlePaddingChange"}
\* the Rect of the cell the running split is at, from what it captured
CapturedRect ==
    CellRectOf(NaturalSize.w, NaturalSize.h, split.sortedRows,
               split.sortedCols, split.paddingX, split.paddingY,
               split.r, split.c)

(***************************************************************************)
(* C29: a split works on the values of the render it was invoked in: it    *)
(* starts from the sorted live line arrays, padding, outputSize and        *)
(* format; every cell is composed from those, and every published result   *)
(* carries them; an edit made while the split is suspended leaves the      *)
(* split alone and is applied to the live grid and history as always: a    *)
(* count change regenerates the array and pushes the live grid, an undo    *)
(* moves the pointer and restores its entry, an export setting leaves the  *)
(* grid alone.                                                             *)
(***************************************************************************)
C29_SplitUsesInvocationValues ==
    /\ [][(~split.active /\ split'.active) =>
            /\ split'.sortedRows \in SortOutcomes(rowPositions)
            /\ split'.sortedCols \in SortOutcomes(colPositions)
            /\ split'.paddingX = paddingX
            /\ split'.paddingY = paddingY
            /\ split'.outputSize = outputSize
            /\ split'.format = format]_vars
    /\ [][CellComposed =>
            /\ composed'.rect = CapturedRect
            /\ composed'.outputSize = split.outputSize
            /\ composed'.format = split.format
            /\ results' # results =>
                  \A i \in 1..Len(results'.list) :
                      /\ results'.list[i].extension = split.format
                      /\ results'.list[i].outputSize = split.outputSize
            /\ UNCHANGED <<rows, cols, rowPositions, colPositions, history,
                           historyIndex, paddingX, paddingY, outputSize,
                           format>>]_vars
    /\ [][EditDuringSplit =>
            /\ split' = split
            /\ isProcessing'
            /\ results' = results
            /\ lastOp'.name = "handleRowChange" =>
                  /\ rowPositions' = generatePositions(rows')
                  /\ lastOp'.pushed => history'[historyIndex' + 1] = LiveNext
            /\ lastOp'.name = "handleUndo" =>
                  /\ history' = history
                  /\ historyIndex' # historyIndex =>
                        LiveNext = history[historyIndex' + 1]
            /\ lastOp'.name \in {"setFormat", "setOutputSize",
                                 "handlePaddingChange"} =>
                  /\ LiveNext = Live
                  /\ history' = history]_vars

\* a split is between two cells, the cell behind it was cut with the
\* padding it started with, and the padding has been changed since
C29_Witness ==
    /\ split.active
    /\ split.idCounter = 1
    /\ composed.by = "handleSplit"
    /\ paddingX # split.paddingX
    /\ composed.rect =
         CellRectOf(NaturalSize.w, NaturalSize.h, split.sortedRows,
                    split.sortedCols, split.paddingX, split.paddingY, 0, 0)
    /\ composed.rect #
         CellRectOf(NaturalSize.w, NaturalSize.h, split.sortedRows,
                    split.sortedCols, paddingX, paddingY, 0, 0)

\* the file extension that names the encoding of a blob
ExtensionOf(blob) == IF blob.type = "image/gif" THEN "gif" ELSE "png"

(***************************************************************************)
(* C30: the extension of every published SplitResult names the encoding    *)
(* of its blob, so that split_{id+1}.{extension} in the exported archive   *)
(* holds what its name says; a result whose animated encoding fell back    *)
(* to the static one carries the static extension.                         *)
(***************************************************************************)
C30_ExtensionNamesEncoding ==
    \A i \in 1..Len(results.list) :
        results.list[i].extension = ExtensionOf(results.list[i].blob)

====
